---- MODULE Spec2Model ----
\* Game of Life engine: Grid (src/grid.cpp), World (src/world.cpp), Zoo (src/zoo.cpp).
\* A Grid is the record [width, height, grid]; grid is the vector of columns,
\* grid[x][y], exactly as std::vector<std::vector<Cell>> is indexed in the source.
\* Vectors are functions over 0..n-1.
EXTENDS Integers, FiniteSets, Sequences, TLC

VARIABLES
    currentState,   \* World::currentState
    nextState,      \* World::nextState
    grid,           \* a Grid object owned by the caller
    op,             \* the last call made: its name and arguments
    pre,            \* the object the last call was made on, as it was before the call
                    \* (NoValue between calls)
    err,            \* the exception the last call raised, or NoError
    ret,            \* the value the last call returned (NoValue for void calls)
    files           \* the files on disk, by path: files.gol and files.bgol

vars == <<currentState, nextState, grid, op, pre, err, ret, files>>

------------------------------------------------------------------------------
\* Bounds of the model.

\* Largest width, height and number of cells of a World: those it is
\* constructed with when it is only stepped, and those it is resized to.
MaxW == 3
MaxH == 3
MaxCells == 8
\* Largest width, height and number of cells of a World that is later resized.
InitW == 2
InitH == 2
InitCells == 4
\* Largest number of steps passed to World::advance.
MaxSteps == 2
\* Largest width, height and number of cells of a caller-owned Grid, and
\* largest number of cells of the Grid merged into it.
GridW == 2
GridH == 3
GridCells == 4
OtherCells == 2
\* Largest number of quarter turns passed to Grid::rotate; the smallest is its
\* negative.
MaxRotation == 5
\* Smallest and largest width and height of the World a glider is placed in,
\* and largest number of steps it is advanced.
GliderMin == 6
GliderMax == 6
GliderSteps == 4
\* Largest width, height and number of cells of a Grid saved to a file; the
\* width reaches past one byte.
ZooW == 256
ZooH == 10
ZooCells == 10
\* Files a load is given: the largest width and height in the header of an
\* ascii file and the largest number of characters after the header; the
\* largest width and height in the header of a binary file and the largest
\* number of bytes after the header.
FileDim == 2
MaxBody == 5
BinDim == 3
MaxPayload == 2
MaxKept == 2

------------------------------------------------------------------------------
\* Cells and vectors.

DEAD  == " "
ALIVE == "#"
Cell  == {DEAD, ALIVE}

NoError         == "none"
InvalidArgument == "std::invalid_argument"
LengthError     == "std::length_error"
NoValue         == "void"

\* The process is killed by a signal inside the call, which does not return.
Killed == "killed"

\* std::vector::size()
VecSize(v) == Cardinality(DOMAIN v)

Min(a, b) == IF a < b THEN a ELSE b

\* (unsigned int)a >= n for an int a and a vector size n: a negative int
\* argument converts to 2^32 - |a|, above every size.
UnsignedGE(a, n) == a < 0 \/ a >= n

------------------------------------------------------------------------------
\* Grid (src/grid.cpp).

\* Grid::Grid(width, height), width, height >= 0
GridNew(w, h) ==
    [width  |-> w,
     height |-> h,
     grid   |-> [x \in 0..(w - 1) |-> [y \in 0..(h - 1) |-> DEAD]]]

get_width(g)  == g.width
get_height(g) == g.height

get_total_cells(g) == get_width(g) * get_height(g)

get_alive_cells(g) ==
    Cardinality({c \in (0..(get_width(g) - 1)) \X (0..(get_height(g) - 1)) :
                    g.grid[c[1]][c[2]] = ALIVE})

get_dead_cells(g) ==
    Cardinality({c \in (0..(get_width(g) - 1)) \X (0..(get_height(g) - 1)) :
                    g.grid[c[1]][c[2]] = DEAD})

\* The bounds check shared by get, set and both operator():
\* x >= grid.size() || y >= grid[0].size(), the second operand evaluated only
\* when the first is false (then grid[0] exists).
OutOfBounds(g, x, y) ==
    IF UnsignedGE(x, VecSize(g.grid)) THEN TRUE ELSE UnsignedGE(y, VecSize(g.grid[0]))

\* Grid::get(x, y): [err, val]
Grid_get(g, x, y) ==
    IF OutOfBounds(g, x, y)
    THEN [err |-> InvalidArgument, val |-> NoValue]
    ELSE [err |-> NoError, val |-> g.grid[x][y]]

\* A mutant of Grid_set whose bounds check lets x = size through.
Grid_set_OffByOne(g, x, y, value) ==
    IF x < 0 \/ x > VecSize(g.grid) \/ (VecSize(g.grid) > 0 /\ UnsignedGE(y, VecSize(g.grid[0])))
    THEN [err |-> InvalidArgument, g |-> g]
    ELSE [err |-> NoError, g |-> [g EXCEPT !.grid[x][y] = value]]

\* Grid::set(x, y, value): [err, g]
Grid_set(g, x, y, value) ==
    IF OutOfBounds(g, x, y)
    THEN [err |-> InvalidArgument, g |-> g]
    ELSE [err |-> NoError, g |-> [g EXCEPT !.grid[x][y] = value]]

\* A mutant of Grid_resize that stores the copied width, stopWidth, in
\* this->width.
Grid_resize_WidthOfCopy(g, width, height) ==
    IF width < 0 \/ height < 0
    THEN [err |-> LengthError, g |-> g]
    ELSE LET stopWidth  == Min(width, get_width(g))
             stopHeight == Min(height, get_height(g))
         IN  [err |-> NoError,
              g   |-> [width  |-> stopWidth,
                       height |-> height,
                       grid   |-> [x \in 0..(width - 1) |-> [y \in 0..(height - 1) |->
                                     IF x < stopWidth /\ y < stopHeight
                                     THEN g.grid[x][y] ELSE DEAD]]]]

\* A mutant of Grid_resize that copies one column too few.
Grid_resize_ShortCopy(g, width, height) ==
    IF width < 0 \/ height < 0
    THEN [err |-> LengthError, g |-> g]
    ELSE LET stopWidth  == Min(width, get_width(g)) - 1
             stopHeight == Min(height, get_height(g))
         IN  [err |-> NoError,
              g   |-> [width  |-> width,
                       height |-> height,
                       grid   |-> [x \in 0..(width - 1) |-> [y \in 0..(height - 1) |->
                                     IF x < stopWidth /\ y < stopHeight
                                     THEN g.grid[x][y] ELSE DEAD]]]]

\* A mutant of Grid_resize without the loops that copy the old cells.
Grid_resize_NoCopy(g, width, height) ==
    IF width < 0 \/ height < 0
    THEN [err |-> LengthError, g |-> g]
    ELSE [err |-> NoError,
          g   |-> [width  |-> width,
                   height |-> height,
                   grid   |-> [x \in 0..(width - 1) |-> [y \in 0..(height - 1) |-> DEAD]]]]

\* Grid::resize(width, height): [err, g].  The temporary vector is built first;
\* a negative size converts to a size_type above max_size() and the vector
\* constructor throws before any member is changed.
Grid_resize(g, width, height) ==
    IF width < 0 \/ height < 0
    THEN [err |-> LengthError, g |-> g]
    ELSE LET stopWidth  == Min(width, get_width(g))
             stopHeight == Min(height, get_height(g))
         IN  [err |-> NoError,
              g   |-> [width  |-> width,
                       height |-> height,
                       grid   |-> [x \in 0..(width - 1) |-> [y \in 0..(height - 1) |->
                                     IF x < stopWidth /\ y < stopHeight
                                     THEN g.grid[x][y] ELSE DEAD]]]]

\* All grids of the given dimensions, and of dimensions up to a bound.
GridsOf(w, h) ==
    {[width |-> w, height |-> h, grid |-> f] :
        f \in [0..(w - 1) -> [0..(h - 1) -> Cell]]}

\* The dimensions within a bound on width, height and number of cells.
Dims(maxw, maxh, maxcells) ==
    {d \in (0..maxw) \X (0..maxh) : d[1] * d[2] <= maxcells}

GridsUpTo(maxw, maxh, maxcells) ==
    UNION {GridsOf(d[1], d[2]) : d \in Dims(maxw, maxh, maxcells)}

------------------------------------------------------------------------------
\* World (src/world.cpp).

\* C++ % on ints truncates towards zero; b > 0 here.
CRem(a, b) == IF a >= 0 THEN a % b ELSE -((-a) % b)

\* mod(a, b) with the + b left out: the C++ remainder of a negative a.
mod_Truncating(a, b) == CRem(a, b)

\* mod(a, b)
mod(a, b) == CRem(CRem(a, b) + b, b)

\* One neighbour read of count_neighbours: currentState.get(x, y) == ALIVE.
\* [err, n]
ReadNeighbour(cur, x, y) ==
    LET r == Grid_get(cur, x, y)
    IN  [err |-> r.err, n |-> IF r.err = NoError /\ r.val = ALIVE THEN 1 ELSE 0]

\* The reads of count_neighbours, in source order, as <<x, y>>, or Skip
\* for a read its guard leaves out.
Skip == <<>>

NeighbourReads(cur, x, y, toroidal) ==
    IF ~toroidal
    THEN LET w == get_width(cur)
             h == get_height(cur)
         IN  << IF x > 0 THEN <<x - 1, y>> ELSE Skip,
                IF x < w - 1 THEN <<x + 1, y>> ELSE Skip,
                IF y > 0 THEN <<x, y - 1>> ELSE Skip,
                IF y < h - 1 THEN <<x, y + 1>> ELSE Skip,
                IF x > 0 /\ y < h - 1 THEN <<x - 1, y + 1>> ELSE Skip,
                IF x < w - 1 /\ y < h - 1 THEN <<x + 1, y + 1>> ELSE Skip,
                IF x > 0 /\ y > 0 THEN <<x - 1, y - 1>> ELSE Skip,
                IF x < w - 1 /\ y > 0 THEN <<x + 1, y - 1>> ELSE Skip >>
    ELSE LET width  == get_width(cur)
             height == get_height(cur)
         IN  << <<mod(x - 1, width), y>>,
                <<mod(x + 1, width), y>>,
                <<x, mod(y - 1, height)>>,
                <<x, mod(y + 1, height)>>,
                <<mod(x - 1, width), mod(y - 1, height)>>,
                <<mod(x + 1, width), mod(y - 1, height)>>,
                <<mod(x - 1, width), mod(y + 1, height)>>,
                <<mod(x + 1, width), mod(y + 1, height)>> >>

\* One read of the list: 1 when the cell read is ALIVE.
ReadCount(cur, read) ==
    IF read # Skip /\ ReadNeighbour(cur, read[1], read[2]).n = 1 THEN 1 ELSE 0

\* The exception the reads raise: that of the first read that fails.
ReadsError(cur, reads) ==
    IF \E i \in DOMAIN reads :
          reads[i] # Skip /\ ReadNeighbour(cur, reads[i][1], reads[i][2]).err # NoError
    THEN InvalidArgument
    ELSE NoError

\* A mutant of count_neighbours that leaves out its eighth read.
count_neighbours_SevenReads(cur, x, y, toroidal) ==
    LET reads == NeighbourReads(cur, x, y, toroidal)
    IN  [err |-> ReadsError(cur, reads),
         n   |-> ReadCount(cur, reads[1]) + ReadCount(cur, reads[2])
                   + ReadCount(cur, reads[3]) + ReadCount(cur, reads[4])
                   + ReadCount(cur, reads[5]) + ReadCount(cur, reads[6])
                   + ReadCount(cur, reads[7])]

\* The eight reads of count_neighbours made: [err, n], n the number of reads
\* that found an ALIVE cell.
CountReads(cur, reads) ==
    [err |-> ReadsError(cur, reads),
     n   |-> ReadCount(cur, reads[1]) + ReadCount(cur, reads[2])
               + ReadCount(cur, reads[3]) + ReadCount(cur, reads[4])
               + ReadCount(cur, reads[5]) + ReadCount(cur, reads[6])
               + ReadCount(cur, reads[7]) + ReadCount(cur, reads[8])]

\* A mutant of count_neighbours that reads the centre (x, y) as a ninth
\* neighbour.
count_neighbours_CentreRead(cur, x, y, toroidal) ==
    [err |-> CountReads(cur, NeighbourReads(cur, x, y, toroidal)).err,
     n   |-> CountReads(cur, NeighbourReads(cur, x, y, toroidal)).n
               + ReadCount(cur, <<x, y>>)]

\* World::count_neighbours(x, y, toroidal): [err, n]
count_neighbours(cur, x, y, toroidal) ==
    CountReads(cur, NeighbourReads(cur, x, y, toroidal))

\* The value World::step writes to nextState for a cell of value c with n
\* alive neighbours, or NoValue when none of its four conditions holds.
StepWrite(c, n) ==
    IF c = ALIVE /\ n < 2 THEN DEAD
    ELSE IF c = ALIVE /\ (n = 2 \/ n = 3) THEN ALIVE
    ELSE IF c = ALIVE /\ n > 3 THEN DEAD
    ELSE IF c = DEAD /\ n = 3 THEN ALIVE
    ELSE NoValue

\* The loops of World::step visit the cells of currentState with y outer
\* and x inner: cell number k is (k % width, k / width).
CellX(cur, k) == k % get_width(cur)
CellY(cur, k) == k \div get_width(cur)
CellNumber(cur, x, y) == y * get_width(cur) + x

\* What the loop body does at each cell of cur: [err, val], err the exception
\* of count_neighbours or of currentState.get, val the value it passes to
\* nextState.set (NoValue: no call of set).
CellWrite(cn, c) ==
    IF cn.err # NoError THEN [err |-> cn.err, val |-> NoValue]
    ELSE IF c.err # NoError THEN [err |-> c.err, val |-> NoValue]
    ELSE [err |-> NoError, val |-> StepWrite(c.val, cn.n)]

CellWrites(cur, toroidal) ==
    [k \in 0..(get_width(cur) * get_height(cur) - 1) |->
        CellWrite(count_neighbours(cur, CellX(cur, k), CellY(cur, k), toroidal),
                  Grid_get(cur, CellX(cur, k), CellY(cur, k)))]

\* The cells at which the loop body throws: in count_neighbours or
\* currentState.get, or in nextState.set when the cell is outside nextState.
StepThrows(cur, nxt, writes) ==
    {k \in DOMAIN writes :
        \/ writes[k].err # NoError
        \/ /\ writes[k].val # NoValue
           /\ OutOfBounds(nxt, CellX(cur, k), CellY(cur, k))}

\* The loops of World::step: [err, next].  The loops end at the first cell
\* whose body throws (stop), and nextState keeps the writes made before it.
StepLoops(cur, nxt, writes, throws) ==
    LET stop == IF throws = {} THEN get_width(cur) * get_height(cur)
                ELSE CHOOSE k \in throws : \A j \in throws : k <= j
    IN  [err  |-> IF throws = {} THEN NoError ELSE InvalidArgument,
         next |-> [nxt EXCEPT !.grid =
                     [x \in DOMAIN nxt.grid |-> [y \in DOMAIN nxt.grid[x] |->
                        IF /\ x < get_width(cur)
                           /\ y < get_height(cur)
                           /\ CellNumber(cur, x, y) < stop
                           /\ writes[CellNumber(cur, x, y)].val # NoValue
                        THEN writes[CellNumber(cur, x, y)].val
                        ELSE nxt.grid[x][y]]]]]

StepCells(cur, nxt, toroidal) ==
    StepLoops(cur, nxt, CellWrites(cur, toroidal),
              StepThrows(cur, nxt, CellWrites(cur, toroidal)))

\* The statement that ends World::step, currentState = nextState, reached
\* when the loops r = [err, next] raised nothing: it copies nextState.
StepAssign(cur, r) ==
    IF r.err # NoError
    THEN [err |-> r.err, currentState |-> cur, nextState |-> r.next]
    ELSE [err |-> NoError, currentState |-> r.next, nextState |-> r.next]

\* World::step(toroidal) on the world w, of fields currentState and
\* nextState: [err, currentState, nextState].
World_step(w, toroidal) ==
    StepAssign(w.currentState, StepCells(w.currentState, w.nextState, toroidal))

RECURSIVE AdvanceFrom(_, _, _, _)
\* The loop of World::advance from i on; s is the World the calls of step
\* made so far left, with the exception the last of them raised.
AdvanceFrom(s, steps, toroidal, i) ==
    IF s.err # NoError \/ ~(i < steps) THEN s
    ELSE AdvanceFrom(World_step(s, toroidal), steps, toroidal, i + 1)

\* A World about to be stepped.
Entered(w) ==
    [err |-> NoError, currentState |-> w.currentState, nextState |-> w.nextState]

\* A mutant of World_advance whose loop runs while i <= steps.
World_advance_OneMore(w, steps, toroidal) ==
    AdvanceFrom(Entered(w), steps + 1, toroidal, 0)

\* World::advance(steps, toroidal)
World_advance(w, steps, toroidal) == AdvanceFrom(Entered(w), steps, toroidal, 0)

\* World::resize(new_width, new_height): resizes currentState only.
World_resize(w, new_width, new_height) ==
    LET r == Grid_resize(w.currentState, new_width, new_height)
    IN  [err |-> r.err, currentState |-> r.g, nextState |-> w.nextState]

\* World::World(width, height)
World_new(width, height) ==
    [currentState |-> GridNew(width, height), nextState |-> GridNew(width, height)]

\* World::World(initial_state)
World_from(initial_state) ==
    [currentState |-> initial_state, nextState |-> initial_state]

World == [currentState |-> currentState, nextState |-> nextState]

------------------------------------------------------------------------------
\* Grid::merge and the indexed access (src/grid.cpp).

\* The loops of Grid::merge: this->grid[x][y] = other.grid[x - x0][y - y0] for
\* x in [x0, x0 + other.width), y in [y0, y0 + other.height); with alive_only
\* only where this->grid[x][y] is DEAD.
MergeLoops(g, other, x0, y0, alive_only) ==
    [g EXCEPT !.grid =
        [x \in DOMAIN g.grid |-> [y \in DOMAIN g.grid[x] |->
            IF x >= x0 /\ x < get_width(other) + x0
               /\ y >= y0 /\ y < get_height(other) + y0
            THEN IF alive_only
                 THEN IF g.grid[x][y] = DEAD
                      THEN other.grid[x - x0][y - y0]
                      ELSE g.grid[x][y]
                 ELSE other.grid[x - x0][y - y0]
            ELSE g.grid[x][y]]]]

\* The largest int
IntMax == 2147483647

\* a + b does not fit an int, 0 <= a, b
AddOverflows(a, b) == a > IntMax - b

\* merge once a sum of its fit check overflows (undefined behaviour), as a
\* build that traps the overflow and a build whose sum wraps to a negative
\* int make it.  The first kills the process.  In the second the wrapped sum
\* passes its half of the check, and the half for y0, where it does not
\* overflow, still raises; past the check the loops run from x0 and y0 to
\* the wrapped sums taken as unsigned and reach a cell outside the grid,
\* which kills the process; they reach no cell when other has none.
MergeOverflow(g, other, x0, y0) ==
    {[err |-> Killed, g |-> g]}
        \cup (IF ~AddOverflows(y0, get_height(other))
                    /\ y0 + get_height(other) > get_height(g)
              THEN {[err |-> InvalidArgument, g |-> g]}
              ELSE IF get_width(other) = 0 \/ get_height(other) = 0
              THEN {[err |-> NoError, g |-> g]}
              ELSE {})

\* A mutant of Grid_merge that takes the alive_only branch whatever the flag.
Grid_merge_AlwaysAliveOnly(g, other, x0, y0, alive_only) ==
    IF x0 < 0 \/ y0 < 0 THEN {[err |-> InvalidArgument, g |-> g]}
    ELSE IF AddOverflows(x0, get_width(other)) THEN MergeOverflow(g, other, x0, y0)
    ELSE IF x0 + get_width(other) > get_width(g) THEN {[err |-> InvalidArgument, g |-> g]}
    ELSE IF AddOverflows(y0, get_height(other)) THEN MergeOverflow(g, other, x0, y0)
    ELSE IF y0 + get_height(other) > get_height(g) THEN {[err |-> InvalidArgument, g |-> g]}
    ELSE {[err |-> NoError, g |-> MergeLoops(g, other, x0, y0, TRUE)]}

\* A mutant of Grid_merge that overwrites every cell whatever the flag.
Grid_merge_Overwrites(g, other, x0, y0, alive_only) ==
    IF x0 < 0 \/ y0 < 0 THEN {[err |-> InvalidArgument, g |-> g]}
    ELSE IF AddOverflows(x0, get_width(other)) THEN MergeOverflow(g, other, x0, y0)
    ELSE IF x0 + get_width(other) > get_width(g) THEN {[err |-> InvalidArgument, g |-> g]}
    ELSE IF AddOverflows(y0, get_height(other)) THEN MergeOverflow(g, other, x0, y0)
    ELSE IF y0 + get_height(other) > get_height(g) THEN {[err |-> InvalidArgument, g |-> g]}
    ELSE {[err |-> NoError, g |-> MergeLoops(g, other, x0, y0, FALSE)]}

\* Grid::merge(other, x0, y0, alive_only): the set of its outcomes [err, g].
\* x0 + other.get_width() and y0 + other.get_height() are sums of ints, the
\* second made only when the first half of the check is false.
Grid_merge(g, other, x0, y0, alive_only) ==
    IF x0 < 0 \/ y0 < 0 THEN {[err |-> InvalidArgument, g |-> g]}
    ELSE IF AddOverflows(x0, get_width(other)) THEN MergeOverflow(g, other, x0, y0)
    ELSE IF x0 + get_width(other) > get_width(g) THEN {[err |-> InvalidArgument, g |-> g]}
    ELSE IF AddOverflows(y0, get_height(other)) THEN MergeOverflow(g, other, x0, y0)
    ELSE IF y0 + get_height(other) > get_height(g) THEN {[err |-> InvalidArgument, g |-> g]}
    ELSE {[err |-> NoError, g |-> MergeLoops(g, other, x0, y0, alive_only)]}

\* const Cell& Grid::operator()(x, y) const, read by the caller: [err, val]
Grid_index_read(g, x, y) ==
    IF OutOfBounds(g, x, y)
    THEN [err |-> InvalidArgument, val |-> NoValue]
    ELSE [err |-> NoError, val |-> g.grid[x][y]]

\* Cell& Grid::operator()(x, y), assigned through by the caller: [err, g]
Grid_index_write(g, x, y, value) ==
    IF OutOfBounds(g, x, y)
    THEN [err |-> InvalidArgument, g |-> g]
    ELSE [err |-> NoError, g |-> [g EXCEPT !.grid[x][y] = value]]

------------------------------------------------------------------------------
\* Grid::crop (src/grid.cpp).

\* (unsigned int)a > n for an int n >= 0 converted to unsigned.
UnsignedGT(a, n) == a < 0 \/ a > n

\* The grid Grid::crop builds: Grid croppedGrid(x1 - x0, y1 - y0), then
\* croppedGrid(x - x0, y - y0) = this->grid[x][y] for x in [x0, x1), y in [y0, y1).
CroppedGrid(g, x0, y0, x1, y1) ==
    [width  |-> x1 - x0,
     height |-> y1 - y0,
     grid   |-> [i \in 0..(x1 - x0 - 1) |-> [j \in 0..(y1 - y0 - 1) |->
                   g.grid[x0 + i][y0 + j]]]]

\* A mutant of Grid_crop that reads the source at (x - x0, y - y0).
Grid_crop_NoOffset(g, x0, y0, x1, y1) ==
    IF \/ UnsignedGT(x0, get_width(g)) \/ UnsignedGT(y0, get_height(g))
       \/ UnsignedGT(x1, get_width(g)) \/ UnsignedGT(y1, get_height(g))
    THEN [err |-> InvalidArgument, val |-> NoValue]
    ELSE IF x0 > x1 THEN [err |-> InvalidArgument, val |-> NoValue]
    ELSE IF y0 > y1 THEN [err |-> InvalidArgument, val |-> NoValue]
    ELSE [err |-> NoError, val |-> CroppedGrid(g, 0, 0, x1 - x0, y1 - y0)]

\* A mutant of Grid_crop whose first check rejects x1 >= width and
\* y1 >= height.
Grid_crop_StrictBounds(g, x0, y0, x1, y1) ==
    IF \/ UnsignedGT(x0, get_width(g)) \/ UnsignedGT(y0, get_height(g))
       \/ UnsignedGE(x1, get_width(g)) \/ UnsignedGE(y1, get_height(g))
    THEN [err |-> InvalidArgument, val |-> NoValue]
    ELSE IF x0 > x1 THEN [err |-> InvalidArgument, val |-> NoValue]
    ELSE IF y0 > y1 THEN [err |-> InvalidArgument, val |-> NoValue]
    ELSE [err |-> NoError, val |-> CroppedGrid(g, x0, y0, x1, y1)]

\* Grid::crop(x0, y0, x1, y1): [err, val].  The second check of the source,
\* x0 < 0 || ..., is never true of unsigned arguments.
Grid_crop(g, x0, y0, x1, y1) ==
    IF \/ UnsignedGT(x0, get_width(g)) \/ UnsignedGT(y0, get_height(g))
       \/ UnsignedGT(x1, get_width(g)) \/ UnsignedGT(y1, get_height(g))
    THEN [err |-> InvalidArgument, val |-> NoValue]
    ELSE IF x0 > x1 THEN [err |-> InvalidArgument, val |-> NoValue]
    ELSE IF y0 > y1 THEN [err |-> InvalidArgument, val |-> NoValue]
    ELSE [err |-> NoError, val |-> CroppedGrid(g, x0, y0, x1, y1)]

------------------------------------------------------------------------------
\* Grid::rotate.  src/grid.h declares it and src/grid.cpp holds its contract
\* and two attempts in comments, no definition: it is modelled from the
\* specification (clockwise quarter turns, the count reduced modulo 4).

\* One clockwise quarter turn: the cell (x, y) moves to (height - 1 - y, x).
Rotate90(g) ==
    [width  |-> g.height,
     height |-> g.width,
     grid   |-> [x \in 0..(g.height - 1) |-> [y \in 0..(g.width - 1) |->
                   g.grid[y][g.height - 1 - x]]]]

\* The quarter turns of rotate, turns in 0..3.
Turn(g, turns) ==
    IF turns = 0 THEN g
    ELSE IF turns = 1 THEN Rotate90(g)
    ELSE IF turns = 2 THEN Rotate90(Rotate90(g))
    ELSE Rotate90(Rotate90(Rotate90(g)))

\* A mutant of Grid_rotate that reduces the count with the remainder of C++
\* and returns the grid as it is for a count below 1.
Grid_rotate_Truncating(g, rotation) ==
    [err |-> NoError,
     val |-> IF CRem(rotation, 4) <= 0 THEN g ELSE Turn(g, CRem(rotation, 4))]

\* Grid::rotate(rotation): [err, val]
Grid_rotate(g, rotation) ==
    [err |-> NoError, val |-> Turn(g, rotation % 4)]

------------------------------------------------------------------------------
\* Zoo (src/zoo.cpp).

RECURSIVE SetAll(_, _, _)
\* grid.set(x, y, ALIVE) for each <<x, y>> of cells, from the i-th on.
SetAll(g, cells, i) ==
    IF i > Len(cells) THEN g
    ELSE SetAll(Grid_set(g, cells[i][1], cells[i][2], ALIVE).g, cells, i + 1)

\* A mutant of glider with its rows in reverse order (the cells of row 0 and
\* row 2 exchanged).
glider_RowsReversed ==
    SetAll(GridNew(3, 3), << <<0, 0>>, <<1, 0>>, <<2, 0>>, <<2, 1>>, <<1, 2>> >>, 1)

\* Zoo::glider()
glider == SetAll(GridNew(3, 3), << <<0, 2>>, <<1, 2>>, <<2, 2>>, <<2, 1>>, <<1, 0>> >>, 1)

------------------------------------------------------------------------------
\* Files (src/zoo.cpp).  A file is [exists, bytes], bytes a sequence of
\* 0..255; a character is its code.

RuntimeError == "std::runtime_error"

NoFile == [exists |-> FALSE, bytes |-> <<>>]
FileOf(bytes) == [exists |-> TRUE, bytes |-> bytes]

\* No file at either path.
NoFiles == [gol |-> NoFile, bgol |-> NoFile]

\* std::istream::get() at the position pos (from 1): the byte, or EOF; on a
\* stream that failed to open every get returns EOF.
EndOfFile == -1
StreamGet(file, pos) ==
    IF file.exists /\ pos <= Len(file.bytes) THEN file.bytes[pos] ELSE EndOfFile

\* The value of get() assigned to a char (signed, 8 bits).
ToChar(v) == IF v = EndOfFile THEN -1 ELSE IF v >= 128 THEN v - 256 ELSE v

RECURSIVE Decimal(_)
\* operator<<(int) for n >= 0: the decimal digits of n.
Decimal(n) ==
    IF n < 10 THEN <<48 + n>> ELSE Append(Decimal(n \div 10), 48 + (n % 10))

RECURSIVE AsciiLoops(_, _, _, _)
\* The loops of Zoo::save_ascii from (x, y) on, out the bytes written so
\* far: [err, bytes].  The inner loop runs while x < get_height(), and
\* grid.get(x, y) throws outside the grid.
AsciiLoops(g, x, y, out) ==
    IF ~(y < get_height(g)) THEN [err |-> NoError, bytes |-> out]
    ELSE IF ~(x < get_height(g)) THEN AsciiLoops(g, 0, y + 1, Append(out, 10))
    ELSE IF Grid_get(g, x, y).err # NoError
    THEN [err |-> Grid_get(g, x, y).err, bytes |-> out]
    ELSE AsciiLoops(g, x + 1, y,
                    IF Grid_get(g, x, y).val = ALIVE THEN Append(out, 35)
                    ELSE IF Grid_get(g, x, y).val = DEAD THEN Append(out, 32)
                    ELSE out)

\* Zoo::save_ascii(path, grid): [err, bytes], bytes the contents of the file
\* when the call ends (what was written before an exception stays written).
Zoo_save_ascii(g) ==
    AsciiLoops(g, 0, 0,
               Decimal(get_width(g)) \o <<32>> \o Decimal(get_height(g)) \o <<10>>)

\* The position of the character load_ascii reads for the cell (x, y), after
\* the 4 characters it takes for the header, and of the one it reads at the
\* end of the row y.
AsciiCellPos(width, x, y) == 5 + y * (width + 1) + x
AsciiRowEnd(width, y) == 5 + y * (width + 1) + width

\* The loops of Zoo::load_ascii: [err, val].  A character other than '#' and
\* ' ' for a cell, or other than '\n' at the end of a row, throws
\* std::runtime_error, which the catch of std::ifstream::failure lets through.
AsciiParse(file, width, height) ==
    IF /\ \A y \in 0..(height - 1) : \A x \in 0..(width - 1) :
             ToChar(StreamGet(file, AsciiCellPos(width, x, y))) \in {35, 32}
       /\ \A y \in 0..(height - 1) :
             ToChar(StreamGet(file, AsciiRowEnd(width, y))) = 10
    THEN [err |-> NoError,
          val |-> [width  |-> width,
                   height |-> height,
                   grid   |-> [x \in 0..(width - 1) |-> [y \in 0..(height - 1) |->
                                 IF StreamGet(file, AsciiCellPos(width, x, y)) = 35
                                 THEN ALIVE ELSE DEAD]]]]
    ELSE [err |-> RuntimeError, val |-> NoValue]

\* Zoo::load_ascii(path): [err, val].  width and height are the first and the
\* third character minus '0'; the second and the fourth are skipped.
Zoo_load_ascii(file) ==
    IF \/ ToChar(StreamGet(file, 1)) - 48 < 0
       \/ ToChar(StreamGet(file, 3)) - 48 < 0
    THEN [err |-> RuntimeError, val |-> NoValue]
    ELSE AsciiParse(file, ToChar(StreamGet(file, 1)) - 48, ToChar(StreamGet(file, 3)) - 48)

\* numBytes of save_binary and load_binary for n = height * width >= 0
NumBytes(n) == (n + (n % 8)) \div 8

\* The grid location of the bit curBit: x = curBit % width, y = curBit / width
BitX(curBit, width) == curBit % width
BitY(curBit, width) == curBit \div width

\* 1 << j, 0 <= j < 8
Shift1(j) == <<1, 2, 4, 8, 16, 32, 64, 128>>[j + 1]

\* What the inner loop of save_binary adds to gridBytes[i] at j: nothing once
\* curBit >= height * width, else 1 << j if grid(x, y) is alive.
GridBit(g, i, j) ==
    IF i * 8 + j >= get_height(g) * get_width(g) THEN 0
    ELSE IF Grid_index_read(g, BitX(i * 8 + j, get_width(g)),
                               BitY(i * 8 + j, get_width(g))).val = ALIVE
    THEN Shift1(j)
    ELSE 0

\* gridBytes[i] when the loops of save_binary end
GridByte(g, i) ==
    GridBit(g, i, 0) + GridBit(g, i, 1) + GridBit(g, i, 2) + GridBit(g, i, 3)
    + GridBit(g, i, 4) + GridBit(g, i, 5) + GridBit(g, i, 6) + GridBit(g, i, 7)

\* headBytes of save_binary: (char)(v << 0) is the low byte of v, and the low
\* byte of v << 8, v << 16 and v << 24 is 0.
HeadBytes(width, height) == <<width % 256, 0, 0, 0, height % 256, 0, 0, 0>>

\* What a process surely has room for: a grid of so many columns, rows and
\* cells on the heap and its numBytes on the stack.  Beyond it an allocation
\* may throw std::bad_alloc and the array of numBytes bytes may overrun the
\* stack.
RoomFor == 1048576
Fits(width, height) ==
    /\ width <= RoomFor
    /\ height <= RoomFor
    /\ (width = 0 \/ height <= RoomFor \div width)

\* headBytes and gridBytes as save_binary writes them
SavedBytes(g) ==
    HeadBytes(get_width(g), get_height(g))
        \o [k \in 1..NumBytes(get_height(g) * get_width(g)) |-> GridByte(g, k - 1)]

BadAlloc == "std::bad_alloc"

\* width << 24 or height << 24 is beyond an unsigned int (undefined
\* behaviour): the shifts of headBytes[3] and headBytes[7]
ShiftOverflows(g) == get_width(g) >= 256 \/ get_height(g) >= 256

\* Zoo::save_binary(path, grid) on a path that can be opened: the set of its
\* outcomes [err, opened, bytes], opened telling whether the file was created
\* and bytes what it then holds.  The file is created empty when outputFile
\* is constructed.  A grid there may be no room for fails to be copied into
\* the parameter, before the file is opened, or kills the process at
\* gridBytes, before anything is written.  A build that traps the undefined
\* shift kills the process at headBytes, the file still empty.  With
\* numBytes = 0 the declaration gridBytes[numBytes] = {0} is an array of no
\* element with an initializer (undefined behaviour): the process is killed
\* there, the file still empty, or the call goes on to write the header and
\* then returns or is killed with the header written.
Zoo_save_binary(g) ==
    {[err |-> NoError, opened |-> TRUE, bytes |-> SavedBytes(g)]}
        \cup (IF ~Fits(get_width(g), get_height(g))
              THEN {[err |-> BadAlloc, opened |-> FALSE, bytes |-> <<>>],
                    [err |-> Killed, opened |-> TRUE, bytes |-> <<>>]}
              ELSE IF NumBytes(get_height(g) * get_width(g)) = 0
              THEN {[err |-> Killed, opened |-> TRUE, bytes |-> SavedBytes(g)],
                    [err |-> Killed, opened |-> TRUE, bytes |-> <<>>]}
              ELSE {})
        \cup (IF ShiftOverflows(g)
              THEN {[err |-> Killed, opened |-> TRUE, bytes |-> <<>>]}
              ELSE {})

\* The int that four bytes in the machine's order (low byte first) make.
IntOf(b0, b1, b2, b3) ==
    b0 + 256 * b1 + 65536 * b2 + 16777216 * (IF b3 >= 128 THEN b3 - 256 ELSE b3)

\* Byte i (0 the lowest) of the int v
ByteOf(v, i) == (v \div (256 ^ i)) % 256

\* Byte i of an int after inputFile.read((char*)&v, sizeof(int)) at position
\* at of the file, the int holding before until then: the bytes the file
\* still has are copied to the low end and the rest stay as they were.  Once
\* a read has fallen short the stream has failed and later reads copy nothing.
ReadByte(file, at, before, i) ==
    IF at + i <= Len(file.bytes) THEN file.bytes[at + i] ELSE ByteOf(before, i)

ReadInt(file, at, before) ==
    IntOf(ReadByte(file, at, before, 0), ReadByte(file, at, before, 1),
          ReadByte(file, at, before, 2), ReadByte(file, at, before, 3))

\* cellBytes[i] of load_binary: zero where the read fell short.
CellByte(file, i) == IF 8 + i + 1 <= Len(file.bytes) THEN file.bytes[8 + i + 1] ELSE 0

\* cellBytes[i] & (1 << j)
BitSet(byte, j) == (byte \div Shift1(j)) % 2 = 1

\* The bits the loops of load_binary visit.
LoadedBits(width, height) ==
    {curBit \in 0..(NumBytes(height * width) * 8 - 1) : curBit < height * width}

\* loadGrid when the loops of load_binary end
LoadedGrid(file, width, height) ==
    [width  |-> width,
     height |-> height,
     grid   |-> [x \in 0..(width - 1) |-> [y \in 0..(height - 1) |->
                   IF \E curBit \in LoadedBits(width, height) :
                         /\ BitX(curBit, width) = x
                         /\ BitY(curBit, width) = y
                         /\ BitSet(CellByte(file, curBit \div 8), curBit % 8)
                   THEN ALIVE ELSE DEAD]]]

\* The low and the high half of a 32-bit pattern
Lo16(v) == v % 65536
Hi16(v) == v \div 65536

\* al * bl for two halves, as the pair of its halves
HalfMulLo(al, bl) ==
    (((((al \div 256) * bl) % 256) * 256) + ((al % 256) * bl)) % 65536
HalfMulHi(al, bl) ==
    (((al \div 256) * bl) \div 256)
        + ((((((al \div 256) * bl) % 256) * 256) + ((al % 256) * bl)) \div 65536)

\* The upper half of the low 32 bits of a * b
MulHi16(a, b) ==
    (HalfMulHi(Lo16(a), Lo16(b)) + ((Hi16(a) * Lo16(b)) % 65536)
        + ((Lo16(a) * Hi16(b)) % 65536)) % 65536

\* height * width in an int, 0 <= a, b: the low 32 bits of the product, which
\* is what the multiplication leaves when the product does not fit an int.
IntMul(a, b) ==
    ((IF MulHi16(a, b) >= 32768 THEN MulHi16(a, b) - 65536 ELSE MulHi16(a, b)) * 65536)
        + HalfMulLo(Lo16(a), Lo16(b))

\* cells % 8 on ints: the remainder has the sign of cells.
Rem8(cells) ==
    IF cells % 8 = 0 THEN 0
    ELSE IF cells < 0 THEN (cells % 8) - 8
    ELSE cells % 8

\* cells + cells % 8 in an int: the low 32 bits of the sum, which wraps to a
\* negative int above the largest int and to a positive int below the least.
SumRem8(cells) ==
    IF cells > 0 /\ cells > IntMax - Rem8(cells)
    THEN ((cells - IntMax) + (Rem8(cells) - 1)) + ((-IntMax) - 1)
    ELSE IF cells < 0 /\ cells < ((-IntMax) - 1) - Rem8(cells)
    THEN (((cells + IntMax) + 1) + Rem8(cells) + 1) + IntMax
    ELSE cells + Rem8(cells)

\* numBytes of load_binary for cells = height * width as an int: the sum
\* divided by 8, the quotient rounded towards zero.
IntNumBytes(cells) ==
    IF SumRem8(cells) >= 0
    THEN SumRem8(cells) \div 8
    ELSE (SumRem8(cells) + 7) \div 8

\* The number of rounds of the outer loop of load_binary,
\* for (int i = 0; i < numBytes; i++): none when numBytes is not positive.
LoopBytes(cells) ==
    IF IntNumBytes(cells) > 0 THEN IntNumBytes(cells) ELSE 0

\* The bits of the file's payload that the loops of load_binary find set
PayloadSet(file, cells) ==
    {curBit \in 0..(8 * (Len(file.bytes) - 8) - 1) :
        /\ curBit < cells
        /\ curBit \div 8 < LoopBytes(cells)
        /\ BitSet(CellByte(file, curBit \div 8), curBit % 8)}

\* The grids whose cells are listed one by one: those of at most Listed
\* columns, rows and cells.
Listed == 1024
Small(width, height) ==
    /\ width <= Listed
    /\ height <= Listed
    /\ (width = 0 \/ height <= Listed \div width)

\* loadGrid when the loops of load_binary end, for a grid that is not Small:
\* its dimensions and the cells set alive, every other cell DEAD.
LargeGrid(file, width, height) ==
    [width  |-> width,
     height |-> height,
     alive  |-> {<<BitX(curBit, width), BitY(curBit, width)>> :
                    curBit \in PayloadSet(file, IntMul(height, width))}]

\* loadGrid when the loops of load_binary end
LoadedOf(file, width, height) ==
    IF Small(width, height)
    THEN LoadedGrid(file, width, height)
    ELSE LargeGrid(file, width, height)

\* load_binary once width and height are read: the set of its outcomes.
\* Grid(width, height) throws on a negative size, and the catch turns every
\* exception into std::runtime_error.  A grid there may be no room for is
\* returned, or fails to allocate, or kills the process at cellBytes.  With
\* numBytes = 0 the initializer of cellBytes[numBytes] = {0} writes outside
\* the array (undefined behaviour): the call returns or the process is killed.
LoadBinaryOf(file, width, height) ==
    IF width < 0 \/ height < 0
    THEN {[err |-> RuntimeError, val |-> NoValue]}
    ELSE IF ~Fits(width, height)
    THEN {[err |-> NoError, val |-> LoadedOf(file, width, height)],
          [err |-> RuntimeError, val |-> NoValue],
          [err |-> Killed, val |-> NoValue]}
    ELSE IF NumBytes(height * width) = 0
    THEN {[err |-> NoError, val |-> LoadedOf(file, width, height)],
          [err |-> Killed, val |-> NoValue]}
    ELSE {[err |-> NoError, val |-> LoadedOf(file, width, height)]}

\* Zoo::load_binary(path): the set of its outcomes [err, val].  width and
\* height are declared uninitialized: stackWidth and stackHeight are the ints
\* their storage holds when the call starts.
Zoo_load_binary(file, stackWidth, stackHeight) ==
    IF ~file.exists
    THEN {[err |-> RuntimeError, val |-> NoValue]}
    ELSE LoadBinaryOf(file, ReadInt(file, 1, stackWidth), ReadInt(file, 5, stackHeight))

------------------------------------------------------------------------------
\* The calls a caller makes on a World.

NoGrid == GridNew(0, 0)

\* Between two calls the caller holds the object and nothing else: op is
\* NoCall.  A call is made from such a state and records itself in op, pre,
\* err and ret; Forget drops that record.
NoCall == [name |-> "none"]

WorldIdle == currentState = NoGrid /\ nextState = NoGrid
GridIdle  == grid = NoGrid
FilesIdle == files = NoFiles

\* Worlds as constructed from dimensions or from an initial grid.
Constructed(maxw, maxh, maxcells) ==
    {World_new(d[1], d[2]) : d \in Dims(maxw, maxh, maxcells)}
        \cup {World_from(g) : g \in GridsUpTo(maxw, maxh, maxcells)}

InitWorld(maxw, maxh, maxcells) ==
    /\ \E w \in Constructed(maxw, maxh, maxcells) :
          /\ currentState = w.currentState
          /\ nextState = w.nextState
    /\ pre = NoValue
    /\ op = NoCall
    /\ err = NoError
    /\ ret = NoValue
    /\ GridIdle
    /\ FilesIdle

\* world.step(toroidal)
Step ==
    /\ op = NoCall
    /\ \E toroidal \in BOOLEAN :
        \E r \in {World_step(World, toroidal)} :
            /\ currentState' = r.currentState
            /\ nextState' = r.nextState
            /\ err' = r.err
            /\ op' = [name |-> "step", toroidal |-> toroidal]
            /\ pre' = World
            /\ ret' = NoValue
            /\ UNCHANGED <<grid, files>>

\* world.advance(steps, toroidal)
Advance ==
    /\ op = NoCall
    /\ \E steps \in (-1)..MaxSteps, toroidal \in BOOLEAN :
        \E r \in {World_advance(World, steps, toroidal)} :
            /\ currentState' = r.currentState
            /\ nextState' = r.nextState
            /\ err' = r.err
            /\ op' = [name |-> "advance", steps |-> steps, toroidal |-> toroidal]
            /\ pre' = World
            /\ ret' = NoValue
            /\ UNCHANGED <<grid, files>>

\* world.resize(new_width, new_height); resize(square_size) is the call
\* with both arguments equal.
Resize ==
    /\ op = NoCall
    /\ \E new_width \in (-1)..MaxW, new_height \in (-1)..MaxH :
        /\ new_width * new_height <= MaxCells
        /\ \E r \in {World_resize(World, new_width, new_height)} :
            /\ currentState' = r.currentState
            /\ nextState' = r.nextState
            /\ err' = r.err
            /\ op' = [name |-> "resize", width |-> new_width, height |-> new_height]
            /\ pre' = World
            /\ ret' = NoValue
            /\ UNCHANGED <<grid, files>>

\* The caller drops the record of the last call and keeps the objects; a
\* caller whose process was killed makes no further step.
Forget ==
    /\ op # NoCall
    /\ err # Killed
    /\ op' = NoCall
    /\ pre' = NoValue
    /\ err' = NoError
    /\ ret' = NoValue
    /\ UNCHANGED <<currentState, nextState, grid, files>>

\* A World built by a constructor, then resized, stepped and advanced.
Init == InitWorld(InitW, InitH, InitCells)
Next == Step \/ Advance \/ Resize \/ Forget
Spec == Init /\ [][Next]_vars

\* A World built by a constructor, then stepped and advanced only.
StepInit == InitWorld(MaxW, MaxH, MaxCells)
StepNext == Step \/ Advance \/ Forget
StepSpec == StepInit /\ [][StepNext]_vars

------------------------------------------------------------------------------
\* A glider placed in an all-DEAD grid, wrapped in a World and advanced once.

\* Grid grid(w, h); grid.merge(Zoo::glider(), x0, y0); World world(grid);
GliderWorlds ==
    {World_from(m.g) :
        m \in UNION {Grid_merge(GridNew(p[1][1], p[1][2]), glider, p[2][1], p[2][2], FALSE) :
                        p \in {q \in ((GliderMin..GliderMax) \X (GliderMin..GliderMax))
                                        \X ((0..GliderMax) \X (0..GliderMax)) :
                                  /\ q[2][1] + get_width(glider) <= q[1][1]
                                  /\ q[2][2] + get_height(glider) <= q[1][2]}}}

GliderInit ==
    /\ \E w \in GliderWorlds :
          /\ currentState = w.currentState
          /\ nextState = w.nextState
    /\ pre = NoValue
    /\ op = NoCall
    /\ err = NoError
    /\ ret = NoValue
    /\ GridIdle
    /\ FilesIdle

\* world.advance(steps, toroidal) on the World as constructed
GliderAdvance ==
    /\ op = NoCall
    /\ \E steps \in 0..GliderSteps, toroidal \in BOOLEAN :
        \E r \in {World_advance(World, steps, toroidal)} :
            /\ currentState' = r.currentState
            /\ nextState' = r.nextState
            /\ err' = r.err
            /\ op' = [name |-> "advance", steps |-> steps, toroidal |-> toroidal]
            /\ pre' = World
            /\ ret' = NoValue
            /\ UNCHANGED <<grid, files>>

GliderNext == GliderAdvance
GliderSpec == GliderInit /\ [][GliderNext]_vars

------------------------------------------------------------------------------
\* The calls a caller makes on a Grid.  An unsigned int argument is drawn as
\* an int: -1 is the int -1 converted, 4294967295.

Coord(max) == (-1)..max

GridInit ==
    /\ \E d \in Dims(GridW, GridH, GridCells) :
          grid = GridNew(d[1], d[2])
    /\ pre = NoValue
    /\ op = NoCall
    /\ err = NoError
    /\ ret = NoValue
    /\ WorldIdle
    /\ FilesIdle

\* grid.get(x, y)
GridGet ==
    /\ op = NoCall
    /\ \E x \in Coord(GridW), y \in Coord(GridH) :
        \E r \in {Grid_get(grid, x, y)} :
            /\ grid' = grid
            /\ err' = r.err
            /\ ret' = r.val
            /\ op' = [name |-> "get", x |-> x, y |-> y]
            /\ pre' = grid
            /\ UNCHANGED <<currentState, nextState, files>>

\* grid.set(x, y, value)
GridSet ==
    /\ op = NoCall
    /\ \E x \in Coord(GridW), y \in Coord(GridH), value \in Cell :
        \E r \in {Grid_set(grid, x, y, value)} :
            /\ grid' = r.g
            /\ err' = r.err
            /\ ret' = NoValue
            /\ op' = [name |-> "set", x |-> x, y |-> y, value |-> value]
            /\ pre' = grid
            /\ UNCHANGED <<currentState, nextState, files>>

\* const Grid &ro = grid; ro(x, y)
GridIndexRead ==
    /\ op = NoCall
    /\ \E x \in Coord(GridW), y \in Coord(GridH) :
        \E r \in {Grid_index_read(grid, x, y)} :
            /\ grid' = grid
            /\ err' = r.err
            /\ ret' = r.val
            /\ op' = [name |-> "index_read", x |-> x, y |-> y]
            /\ pre' = grid
            /\ UNCHANGED <<currentState, nextState, files>>

\* grid(x, y) = value
GridIndexWrite ==
    /\ op = NoCall
    /\ \E x \in Coord(GridW), y \in Coord(GridH), value \in Cell :
        \E r \in {Grid_index_write(grid, x, y, value)} :
            /\ grid' = r.g
            /\ err' = r.err
            /\ ret' = NoValue
            /\ op' = [name |-> "index_write", x |-> x, y |-> y, value |-> value]
            /\ pre' = grid
            /\ UNCHANGED <<currentState, nextState, files>>

\* grid.resize(width, height); resize(square_size) is the call with both
\* arguments equal.
GridResize ==
    /\ op = NoCall
    /\ \E width \in (-1)..GridW, height \in (-1)..GridH :
        /\ width * height <= GridCells
        /\ \E r \in {Grid_resize(grid, width, height)} :
            /\ grid' = r.g
            /\ err' = r.err
            /\ ret' = NoValue
            /\ op' = [name |-> "resize", width |-> width, height |-> height]
            /\ pre' = grid
            /\ UNCHANGED <<currentState, nextState, files>>

\* grid.merge(other, x0, y0, alive_only)
\* The offsets a caller passes to merge: about the grid, and the largest int.
MergeOffsets(max) == ((-1)..max) \cup {IntMax}

GridMerge ==
    /\ op = NoCall
    /\ \E other \in GridsUpTo(GridW, GridH, OtherCells),
       x0 \in MergeOffsets(GridW), y0 \in MergeOffsets(GridH), alive_only \in BOOLEAN :
        \E r \in Grid_merge(grid, other, x0, y0, alive_only) :
            /\ grid' = r.g
            /\ err' = r.err
            /\ ret' = NoValue
            /\ op' = [name |-> "merge", other |-> other, x0 |-> x0, y0 |-> y0,
                      alive_only |-> alive_only]
            /\ pre' = grid
            /\ UNCHANGED <<currentState, nextState, files>>

\* const Grid &ro = grid; ro.crop(x0, y0, x1, y1)
GridCrop ==
    /\ op = NoCall
    /\ \E x0 \in Coord(GridW), y0 \in Coord(GridH), x1 \in Coord(GridW), y1 \in Coord(GridH) :
        \E r \in {Grid_crop(grid, x0, y0, x1, y1)} :
            /\ grid' = grid
            /\ err' = r.err
            /\ ret' = r.val
            /\ op' = [name |-> "crop", x0 |-> x0, y0 |-> y0, x1 |-> x1, y1 |-> y1]
            /\ pre' = grid
            /\ UNCHANGED <<currentState, nextState, files>>

\* const Grid &ro = grid; ro.rotate(rotation)
GridRotate ==
    /\ op = NoCall
    /\ \E rotation \in (-MaxRotation)..(MaxRotation + 4) :
        \E r \in {Grid_rotate(grid, rotation)} :
            /\ grid' = grid
            /\ err' = r.err
            /\ ret' = r.val
            /\ op' = [name |-> "rotate", rotation |-> rotation]
            /\ pre' = grid
            /\ UNCHANGED <<currentState, nextState, files>>

GridNext ==
    \/ GridGet \/ GridSet \/ GridIndexRead \/ GridIndexWrite \/ GridResize \/ GridMerge
    \/ GridCrop \/ GridRotate
    \/ Forget
GridSpec == GridInit /\ [][GridNext]_vars

------------------------------------------------------------------------------
\* The calls a caller makes on Zoo with a Grid it holds and two paths.

ZooInit ==
    /\ grid \in GridsUpTo(ZooW, ZooH, ZooCells)
    /\ pre = NoValue
    /\ op = NoCall
    /\ err = NoError
    /\ ret = NoValue
    /\ WorldIdle
    /\ FilesIdle

\* Zoo::save_ascii("file.gol", grid)
SaveAscii ==
    /\ op = NoCall
    /\ \E r \in {Zoo_save_ascii(grid)} :
          /\ op' = [name |-> "save_ascii"]
          /\ pre' = grid
          /\ err' = r.err
          /\ ret' = NoValue
          /\ files' = [files EXCEPT !.gol = FileOf(r.bytes)]
    /\ UNCHANGED <<currentState, nextState, grid>>

\* Zoo::load_ascii("file.gol")
LoadAscii ==
    /\ op = NoCall
    /\ \E r \in {Zoo_load_ascii(files.gol)} :
          /\ op' = [name |-> "load_ascii"]
          /\ pre' = NoValue
          /\ err' = r.err
          /\ ret' = r.val
    /\ UNCHANGED <<currentState, nextState, grid, files>>

\* Zoo::save_binary("file.bgol", grid)
SaveBinary ==
    /\ op = NoCall
    /\ \E r \in Zoo_save_binary(grid) :
          /\ op' = [name |-> "save_binary"]
          /\ pre' = grid
          /\ err' = r.err
          /\ ret' = NoValue
          /\ files' = IF r.opened THEN [files EXCEPT !.bgol = FileOf(r.bytes)] ELSE files
    /\ UNCHANGED <<currentState, nextState, grid>>

\* What a byte of the storage of an uninitialized int holds when load_binary
\* starts: any byte.
StackBytes == 0..255

\* Byte i of the storage of the int read at position at of the file: any
\* byte where the read leaves it as it was, and taken as 0 where the read
\* overwrites it or the file cannot be opened and the int is never used.
KeptBytes(file, at, i) ==
    IF file.exists /\ at + i > Len(file.bytes) THEN StackBytes ELSE {0}

\* What the storage of the int read at position at holds when load_binary
\* starts: every choice of the bytes the read leaves.
StackInts(file, at) ==
    {IntOf(b0, b1, b2, b3) :
        b0 \in KeptBytes(file, at, 0), b1 \in KeptBytes(file, at, 1),
        b2 \in KeptBytes(file, at, 2), b3 \in KeptBytes(file, at, 3)}

\* Zoo::load_binary("file.bgol")
LoadBinary ==
    /\ op = NoCall
    /\ \E stackWidth \in StackInts(files.bgol, 1), stackHeight \in StackInts(files.bgol, 5) :
      \E r \in Zoo_load_binary(files.bgol, stackWidth, stackHeight) :
          /\ op' = [name |-> "load_binary"]
          /\ pre' = NoValue
          /\ err' = r.err
          /\ ret' = r.val
    /\ UNCHANGED <<currentState, nextState, grid, files>>

ZooNext == SaveAscii \/ LoadAscii \/ SaveBinary \/ LoadBinary \/ Forget
ZooSpec == ZooInit /\ [][ZooNext]_vars

------------------------------------------------------------------------------
\* The loads a caller makes of a file some other program wrote.

SeqsUpTo(S, n) == UNION {[1..k -> S] : k \in 0..n}

\* A header field as written: a decimal number, "10", "a" or "-1".
HeaderFields == {Decimal(n) : n \in 0..FileDim} \cup {<<49, 48>>, <<97>>, <<45, 49>>}

\* The characters after the header: '#', ' ', '\n' and 'x'.
BodyChars == {35, 32, 10, 120}

\* Two fields with a space between and a newline after, then the body.
AsciiFiles ==
    {FileOf(w \o <<32>> \o h \o <<10>> \o body) :
        w \in HeaderFields, h \in HeaderFields, body \in SeqsUpTo(BodyChars, MaxBody)}

\* The four bytes of the int v, low byte first; -1 is all ones.
IntBytes(v) ==
    IF v < 0 THEN <<255, 255, 255, 255>>
    ELSE <<v % 256, (v \div 256) % 256, (v \div 65536) % 256, (v \div 16777216) % 256>>

PayloadBytes == {0, 165, 255}

\* A width and a height, each within dims, then the payload.
WholeBinaryFiles(dims) ==
    {IntBytes(w) \o IntBytes(h) \o payload :
        w \in dims, h \in dims, payload \in SeqsUpTo(PayloadBytes, MaxPayload)}

\* Whole files, a negative width or height among them, and the files of
\* width and height >= 0 cut short in the payload or in the header, where at
\* most MaxKept bytes of the header are missing.
BinaryFiles ==
    {FileOf(b) : b \in WholeBinaryFiles(-1..BinDim)}
        \cup {FileOf(SubSeq(p[1], 1, p[2])) :
                 p \in {q \in WholeBinaryFiles(0..BinDim) \X ((8 - MaxKept)..(8 + MaxPayload)) :
                           q[2] < Len(q[1])}}

FileInit ==
    /\ files \in {[gol |-> f, bgol |-> NoFile] : f \in AsciiFiles}
                    \cup {[gol |-> NoFile, bgol |-> f] : f \in BinaryFiles}
    /\ pre = NoValue
    /\ op = NoCall
    /\ err = NoError
    /\ ret = NoValue
    /\ WorldIdle
    /\ GridIdle

FileNext == LoadAscii \/ LoadBinary \/ Forget
FileSpec == FileInit /\ [][FileNext]_vars

------------------------------------------------------------------------------
\* Conway's rule as the specification states it, for the claims below.

Offsets == {d \in {-1, 0, 1} \X {-1, 0, 1} : d # <<0, 0>>}

InGrid(g, x, y) == x >= 0 /\ x < g.width /\ y >= 0 /\ y < g.height

\* The number of ALIVE cells among the in-bounds neighbours of (x, y).
FlatCount(g, x, y) ==
    Cardinality({d \in Offsets :
        /\ InGrid(g, x + d[1], y + d[2])
        /\ g.grid[x + d[1]][y + d[2]] = ALIVE})

\* The number of offsets whose cell, read at the wrapped coordinates, is ALIVE.
TorusCount(g, x, y) ==
    Cardinality({d \in Offsets :
        g.grid[(x + d[1]) % g.width][(y + d[2]) % g.height] = ALIVE})

ConwayRule(c, n) ==
    IF (c = ALIVE /\ n \in {2, 3}) \/ (c = DEAD /\ n = 3) THEN ALIVE ELSE DEAD

FlatSuccessor(g) ==
    [width  |-> g.width,
     height |-> g.height,
     grid   |-> [x \in 0..(g.width - 1) |-> [y \in 0..(g.height - 1) |->
                   ConwayRule(g.grid[x][y], FlatCount(g, x, y))]]]

TorusSuccessor(g) ==
    [width  |-> g.width,
     height |-> g.height,
     grid   |-> [x \in 0..(g.width - 1) |-> [y \in 0..(g.height - 1) |->
                   ConwayRule(g.grid[x][y], TorusCount(g, x, y))]]]

Successor(g, toroidal) == IF toroidal THEN TorusSuccessor(g) ELSE FlatSuccessor(g)

\* The cells of g, as coordinates.
CellsOf(g) == (0..(g.width - 1)) \X (0..(g.height - 1))

------------------------------------------------------------------------------
\* Claims.

\* C1: on a World built by a constructor and advanced only by step/advance,
\* step(toroidal=false) raises nothing and replaces currentState by the Conway
\* successor of the pre-step currentState (neighbours outside the grid count
\* 0); width and height are unchanged.
C1_StepIsConwaySuccessor ==
    (op.name = "step" /\ ~op.toroidal) =>
        /\ err = NoError
        /\ currentState.width = pre.currentState.width
        /\ currentState.height = pre.currentState.height
        /\ currentState = FlatSuccessor(pre.currentState)

\* C1 witness: a non-toroidal step in which one cell died of overpopulation,
\* one survived and one was born.
C1_Witness ==
    /\ op.name = "step" /\ ~op.toroidal /\ err = NoError
    /\ \E c \in CellsOf(pre.currentState) :
          /\ pre.currentState.grid[c[1]][c[2]] = ALIVE
          /\ FlatCount(pre.currentState, c[1], c[2]) > 3
          /\ currentState.grid[c[1]][c[2]] = DEAD
    /\ \E c \in CellsOf(pre.currentState) :
          /\ pre.currentState.grid[c[1]][c[2]] = ALIVE
          /\ FlatCount(pre.currentState, c[1], c[2]) \in {2, 3}
          /\ currentState.grid[c[1]][c[2]] = ALIVE
    /\ \E c \in CellsOf(pre.currentState) :
          /\ pre.currentState.grid[c[1]][c[2]] = DEAD
          /\ FlatCount(pre.currentState, c[1], c[2]) = 3
          /\ currentState.grid[c[1]][c[2]] = ALIVE

\* C2: after World.resize(w, h), a following step of either topology raises
\* no error, keeps width = w and height = h, and makes currentState the Conway
\* successor of the resized currentState.
C2_StepAfterResize ==
    (op.name = "resize" /\ err = NoError) =>
        \A toroidal \in BOOLEAN :
            \A r \in {World_step(World, toroidal)} :
                /\ r.err = NoError
                /\ r.currentState.width = op.width
                /\ r.currentState.height = op.height
                /\ r.currentState = Successor(currentState, toroidal)

\* C3: in every reachable state currentState and nextState have the same
\* width and the same height.
C3_BuffersSameSize ==
    /\ currentState.width = nextState.width
    /\ currentState.height = nextState.height

\* C4: step(toroidal=true) counts, for each cell, the ALIVE cells at the
\* eight offsets read at the coordinates wrapped by a non-negative modulo, and
\* applies the birth/survival rule; no read is outside the grid and the step
\* raises nothing, for every width, height >= 1.
C4_ToroidalStep ==
    /\ \A c \in CellsOf(currentState) :
          count_neighbours(currentState, c[1], c[2], TRUE)
              = [err |-> NoError, n |-> TorusCount(currentState, c[1], c[2])]
    /\ (op.name = "step" /\ op.toroidal) =>
          /\ err = NoError
          /\ currentState = TorusSuccessor(pre.currentState)

\* C4 witness: a toroidal step on a grid 1 or 2 cells wide, where wrapped
\* reads land on the same cell more than once, whose outcome differs from the
\* non-toroidal successor.
C4_Witness ==
    /\ op.name = "step" /\ op.toroidal /\ err = NoError
    /\ pre.currentState.width \in {1, 2}
    /\ pre.currentState.height >= 2
    /\ currentState # FlatSuccessor(pre.currentState)
    /\ get_alive_cells(currentState) > 0

\* C5: after each step nextState holds exactly the grid that was
\* currentState before the step, and currentState the new generation.
C5_BuffersExchanged ==
    (op.name = "step" /\ err = NoError) =>
        /\ nextState = pre.currentState
        /\ currentState = Successor(pre.currentState, op.toroidal)

RECURSIVE StepTimes(_, _, _)
\* The World after n successive calls of step(toroidal), each made on the
\* World the call before left (whether or not that call raised).
StepTimes(w, n, toroidal) ==
    IF n <= 0 THEN w
    ELSE StepTimes([currentState |-> World_step(w, toroidal).currentState,
                    nextState    |-> World_step(w, toroidal).nextState],
                   n - 1, toroidal)

\* C6: advance(n, toroidal), n >= 0, leaves the World in the state n
\* successive step(toroidal) calls reach; advance(0) and advance(n), n < 0,
\* change nothing and take no step.
C6_AdvanceIsRepeatedStep ==
    (op.name = "advance") =>
        /\ World = StepTimes(pre, op.steps, op.toroidal)
        /\ op.steps <= 0 => (World = pre /\ err = NoError)

\* C6 witness: an advance by 2 steps that ends in a state neither the
\* World before it nor one step from it.
C6_Witness ==
    /\ op.name = "advance" /\ op.steps = 2 /\ err = NoError
    /\ currentState # pre.currentState
    /\ currentState # World_step(pre, op.toroidal).currentState
    /\ get_alive_cells(currentState) > 0

\* C7: a glider merged into an all-DEAD W x H grid (W, H >= 6), wrapped in a
\* World and advanced 4 generations with toroidal=true, ends as exactly 5
\* ALIVE cells: the same shape moved by +1 in x and +1 in y, modulo W and H.
C7_GliderTranslates ==
    (op.name = "advance" /\ op.steps = 4 /\ op.toroidal) =>
        /\ err = NoError
        /\ currentState.width = pre.currentState.width
        /\ currentState.height = pre.currentState.height
        /\ get_alive_cells(currentState) = 5
        /\ \A c \in CellsOf(pre.currentState) :
              currentState.grid[(c[1] + 1) % currentState.width]
                               [(c[2] + 1) % currentState.height]
                  = pre.currentState.grid[c[1]][c[2]]

\* C7 witness: the advanced glider has crossed the right edge: it was placed
\* against it and now has a cell in column 0.
C7_Witness ==
    /\ op.name = "advance" /\ op.steps = 4 /\ op.toroidal /\ err = NoError
    /\ \E y \in 0..(pre.currentState.height - 1) :
          pre.currentState.grid[pre.currentState.width - 1][y] = ALIVE
    /\ \E y \in 0..(currentState.height - 1) : currentState.grid[0][y] = ALIVE
    /\ get_alive_cells(currentState) = 5

\* The coordinates get accepts, among those around the grid.
Addressable(g) ==
    {c \in (0..(g.width + 1)) \X (0..(g.height + 1)) : ~OutOfBounds(g, c[1], c[2])}

\* C8: for every Grid constructed with non-negative dimensions and changed by
\* set, resize and merge, get_alive_cells() + get_dead_cells() =
\* get_total_cells() = width * height, the number of cells it holds.
C8_CountsAddUp ==
    /\ get_alive_cells(grid) + get_dead_cells(grid) = get_total_cells(grid)
    /\ get_total_cells(grid) = grid.width * grid.height
    /\ get_total_cells(grid) = Cardinality(Addressable(grid))

\* C8 witness: a merge that succeeded and left both ALIVE and DEAD cells.
C8_Witness ==
    /\ op.name = "merge" /\ err = NoError
    /\ get_alive_cells(grid) > 0
    /\ get_dead_cells(grid) > 0
    /\ get_alive_cells(grid) # get_alive_cells(pre)

\* C9: get, set and both forms of grid(x, y) raise exactly when x >= width or
\* y >= height (x, y unsigned); a call that raised leaves the grid unchanged;
\* a read returns the cell; a successful write of v makes get(x, y) = v and
\* changes no other cell.
C9_BoundsChecked ==
    (op.name \in {"get", "set", "index_read", "index_write"}) =>
        /\ (err # NoError) <=>
              (UnsignedGE(op.x, pre.width) \/ UnsignedGE(op.y, pre.height))
        /\ err \in {NoError, InvalidArgument}
        /\ (err # NoError \/ op.name \in {"get", "index_read"}) => grid = pre
        /\ (err = NoError /\ op.name \in {"get", "index_read"}) =>
              ret = pre.grid[op.x][op.y]
        /\ (err = NoError /\ op.name \in {"set", "index_write"}) =>
              /\ grid.width = pre.width /\ grid.height = pre.height
              /\ Grid_get(grid, op.x, op.y) = [err |-> NoError, val |-> op.value]
              /\ \A c \in CellsOf(pre) :
                    c # <<op.x, op.y>> => grid.grid[c[1]][c[2]] = pre.grid[c[1]][c[2]]

\* C9 witness: a set at x = width, y in range, on a grid holding an ALIVE
\* cell: it raised.
C9_Witness ==
    /\ op.name = "set" /\ op.x = pre.width /\ op.y >= 0 /\ op.y < pre.height
    /\ err = InvalidArgument
    /\ get_alive_cells(grid) > 0

\* C10: resize(w', h') on a w x h grid yields a w' x h' grid whose cell
\* (x, y) is the old cell for x < min(w, w'), y < min(h, h') and DEAD for
\* every other in-bounds coordinate.
C10_ResizeKeepsOverlap ==
    (op.name = "resize" /\ WorldIdle /\ err = NoError) =>
        /\ grid.width = op.width /\ grid.height = op.height
        /\ Addressable(grid) = CellsOf(grid)
        /\ \A c \in CellsOf(grid) :
              grid.grid[c[1]][c[2]] =
                  IF c[1] < pre.width /\ c[1] < op.width
                     /\ c[2] < pre.height /\ c[2] < op.height
                  THEN pre.grid[c[1]][c[2]]
                  ELSE DEAD

\* C10 witness: a resize that grew the width and cut the height, keeping one
\* ALIVE cell and dropping another.
C10_Witness ==
    /\ op.name = "resize" /\ WorldIdle /\ err = NoError
    /\ op.width > pre.width /\ op.height < pre.height
    /\ get_alive_cells(grid) > 0
    /\ get_alive_cells(grid) < get_alive_cells(pre)

\* C11: resize(w', h') followed by resize(w, h) back to the dimensions before
\* yields a w x h grid equal to the first grid on [0,min(w,w')) x [0,min(h,h'))
\* and DEAD everywhere else; growing and shrinking back restores the grid.
C11_ResizeAndBack ==
    (op.name = "resize" /\ WorldIdle /\ err = NoError) =>
        \A back \in {Grid_resize(grid, pre.width, pre.height)} :
            /\ back.err = NoError
            /\ back.g.width = pre.width /\ back.g.height = pre.height
            /\ Addressable(back.g) = CellsOf(pre)
            /\ \A c \in CellsOf(pre) :
                  back.g.grid[c[1]][c[2]] =
                      IF c[1] < op.width /\ c[2] < op.height
                      THEN pre.grid[c[1]][c[2]]
                      ELSE DEAD
            /\ (op.width >= pre.width /\ op.height >= pre.height) => back.g = pre

\* C11 witness: a resize that cut the width and dropped an ALIVE cell while
\* keeping another: resizing back does not restore the grid.
C11_Witness ==
    /\ op.name = "resize" /\ WorldIdle /\ err = NoError
    /\ op.width < pre.width /\ op.width > 0 /\ op.height >= pre.height
    /\ get_alive_cells(grid) > 0
    /\ get_alive_cells(grid) < get_alive_cells(pre)
    /\ Grid_resize(grid, pre.width, pre.height).g # pre

\* The crop windows the claims call valid.
ValidWindow(g, x0, y0, x1, y1) ==
    /\ 0 <= x0 /\ x0 <= x1 /\ x1 <= g.width
    /\ 0 <= y0 /\ y0 <= y1 /\ y1 <= g.height

\* C12: for valid bounds, crop(x0, y0, x1, y1) returns a new grid of width
\* x1 - x0 and height y1 - y0 whose cell (i, j) is the source cell
\* (x0 + i, y0 + j), and leaves the source grid unchanged.
C12_CropCopiesWindow ==
    (op.name = "crop" /\ ValidWindow(pre, op.x0, op.y0, op.x1, op.y1)) =>
        /\ err = NoError
        /\ ret.width = op.x1 - op.x0
        /\ ret.height = op.y1 - op.y0
        /\ Addressable(ret) = CellsOf(ret)
        /\ \A c \in CellsOf(ret) :
              Grid_get(ret, c[1], c[2])
                  = [err |-> NoError, val |-> pre.grid[op.x0 + c[1]][op.y0 + c[2]]]
        /\ grid = pre

\* C12 witness: a crop of a window that starts right of column 0 and holds
\* some but not all of the ALIVE cells of the source.
C12_Witness ==
    /\ op.name = "crop" /\ err = NoError
    /\ op.x0 > 0
    /\ get_alive_cells(ret) > 0
    /\ get_alive_cells(ret) < get_alive_cells(pre)
    /\ get_dead_cells(ret) > 0

\* C13: crop(x0, y0, x1, y1) raises exactly when x0 > x1, or y0 > y1, or x0
\* or x1 exceeds width, or y0 or y1 exceeds height (unsigned arguments); empty
\* windows and windows touching x = width or y = height succeed.
C13_CropErrors ==
    (op.name = "crop") =>
        /\ (err # NoError) <=>
              \/ op.x0 > op.x1 \/ op.y0 > op.y1
              \/ UnsignedGT(op.x0, pre.width) \/ UnsignedGT(op.x1, pre.width)
              \/ UnsignedGT(op.y0, pre.height) \/ UnsignedGT(op.y1, pre.height)
        /\ err \in {NoError, InvalidArgument}
        /\ (err # NoError) => (ret = NoValue /\ grid = pre)

\* C13 witness: an empty window at x0 = x1 = width with y1 = height, on a
\* grid holding an ALIVE cell: the crop succeeded.
C13_Witness ==
    /\ op.name = "crop" /\ err = NoError
    /\ op.x0 = pre.width /\ op.x1 = pre.width /\ op.y1 = pre.height
    /\ op.y0 < op.y1
    /\ get_alive_cells(pre) > 0
    /\ ret = GridNew(0, op.y1 - op.y0)

\* The cells of the region a merge of other at (x0, y0) places.
Region(other, x0, y0) ==
    {<<x0 + d[1], y0 + d[2]>> : d \in (0..(other.width - 1)) \X (0..(other.height - 1))}

\* C14: for a valid crop window (x0, y0, x1, y1) of g and any target t of
\* the dimensions of g, t.merge(g.crop(x0, y0, x1, y1), x0, y0) with
\* alive_only = false makes t equal to g on every cell of the window and
\* leaves every cell of t outside the window unchanged.
C14_CropThenMerge ==
    (op.name = "crop" /\ err = NoError) =>
        \A t \in GridsOf(pre.width, pre.height) :
            \A m \in Grid_merge(t, ret, op.x0, op.y0, FALSE) :
                /\ m.err = NoError
                /\ m.g.width = t.width /\ m.g.height = t.height
                /\ \A c \in CellsOf(t) :
                      m.g.grid[c[1]][c[2]] =
                          IF c \in (op.x0..(op.x1 - 1)) \X (op.y0..(op.y1 - 1))
                          THEN pre.grid[c[1]][c[2]]
                          ELSE t.grid[c[1]][c[2]]

\* C14 witness: a crop of a window that is neither empty nor the whole grid
\* and holds a DEAD and an ALIVE cell, so that merging it changes an all-ALIVE
\* target and an all-DEAD target inside the window only.
C14_Witness ==
    /\ op.name = "crop" /\ err = NoError
    /\ op.x0 > 0
    /\ get_alive_cells(ret) > 0 /\ get_dead_cells(ret) > 0
    /\ get_total_cells(ret) < get_total_cells(pre)
    /\ \E t \in GridsOf(pre.width, pre.height) :
          /\ get_dead_cells(t) = 0
          /\ \E m \in Grid_merge(t, ret, op.x0, op.y0, FALSE) :
                get_dead_cells(m.g) = get_dead_cells(ret)

\* C15: merge(other, x0, y0, alive_only = true) never turns an ALIVE cell
\* DEAD: each cell of the placed region is ALIVE iff it was ALIVE before or
\* the corresponding cell of other is ALIVE; cells outside are unchanged.
C15_MergeAliveOnly ==
    (op.name = "merge" /\ op.alive_only /\ err = NoError) =>
        /\ grid.width = pre.width /\ grid.height = pre.height
        /\ \A c \in CellsOf(pre) :
              /\ pre.grid[c[1]][c[2]] = ALIVE => grid.grid[c[1]][c[2]] = ALIVE
              /\ IF c \in Region(op.other, op.x0, op.y0)
                 THEN grid.grid[c[1]][c[2]] = ALIVE <=>
                        \/ pre.grid[c[1]][c[2]] = ALIVE
                        \/ op.other.grid[c[1] - op.x0][c[2] - op.y0] = ALIVE
                 ELSE grid.grid[c[1]][c[2]] = pre.grid[c[1]][c[2]]

\* C15 witness: an alive_only merge placing a DEAD cell of other on an ALIVE
\* cell and an ALIVE cell of other on a DEAD cell.
C15_Witness ==
    /\ op.name = "merge" /\ op.alive_only /\ err = NoError
    /\ \E c \in Region(op.other, op.x0, op.y0) :
          /\ pre.grid[c[1]][c[2]] = ALIVE
          /\ op.other.grid[c[1] - op.x0][c[2] - op.y0] = DEAD
          /\ grid.grid[c[1]][c[2]] = ALIVE
    /\ \E c \in Region(op.other, op.x0, op.y0) :
          /\ pre.grid[c[1]][c[2]] = DEAD
          /\ op.other.grid[c[1] - op.x0][c[2] - op.y0] = ALIVE
          /\ grid.grid[c[1]][c[2]] = ALIVE

\* C16: merge(other, x0, y0, ...) raises exactly when x0 < 0, or y0 < 0, or
\* x0 + other.width > width, or y0 + other.height > height; a merge that
\* raised leaves the cells and the dimensions of the target unchanged.
C16_MergeErrors ==
    (op.name = "merge") =>
        /\ (err # NoError) <=>
              \/ op.x0 < 0 \/ op.y0 < 0
              \/ op.other.width > pre.width - op.x0
              \/ op.other.height > pre.height - op.y0
        /\ err \in {NoError, InvalidArgument}
        /\ (err # NoError) => grid = pre

\* The grid g turned clockwise k times, k in 0..3, cell by cell.
Turned(g, k) ==
    [width  |-> IF k \in {1, 3} THEN g.height ELSE g.width,
     height |-> IF k \in {1, 3} THEN g.width ELSE g.height,
     grid   |-> [x \in 0..((IF k \in {1, 3} THEN g.height ELSE g.width) - 1) |->
                   [y \in 0..((IF k \in {1, 3} THEN g.width ELSE g.height) - 1) |->
                      IF k = 0 THEN g.grid[x][y]
                      ELSE IF k = 1 THEN g.grid[y][g.height - 1 - x]
                      ELSE IF k = 2 THEN g.grid[g.width - 1 - x][g.height - 1 - y]
                      ELSE g.grid[g.width - 1 - y][x]]]]

\* C17: rotate(r) returns, for every integer r, a new grid equal to the
\* source turned clockwise (r mod 4) times: rotate(r) = rotate(r + 4),
\* rotate(0) is the identity, an odd r swaps width and height, and the source
\* grid is unchanged.
C17_RotateModFour ==
    (op.name = "rotate") =>
        /\ err = NoError
        /\ grid = pre
        /\ ret = Turned(pre, op.rotation % 4)
        /\ ret = Grid_rotate(pre, op.rotation + 4).val
        /\ ret = Grid_rotate(pre, op.rotation - 4).val
        /\ (op.rotation = 0) => ret = pre
        /\ (op.rotation % 2 = 1) => (ret.width = pre.height /\ ret.height = pre.width)
        /\ (op.rotation % 2 = 0) => (ret.width = pre.width /\ ret.height = pre.height)

\* C17 witness: a negative odd rotation of a 1 x 3 grid holding an ALIVE
\* and a DEAD cell: the result is 3 x 1 and differs from the turn the other
\* way.
C17_Witness ==
    /\ op.name = "rotate" /\ err = NoError
    /\ op.rotation < 0 /\ op.rotation % 4 = 1
    /\ pre.width = 1 /\ pre.height = 3
    /\ ret.width = 3 /\ ret.height = 1
    /\ get_alive_cells(ret) > 0 /\ get_dead_cells(ret) > 0
    /\ ret # Turned(pre, 3)

\* C18: for every grid, save_ascii followed by load_ascii of the same file
\* succeeds and returns a grid with the same width, the same height and the
\* same value in every cell.
C18_AsciiRoundTrip ==
    op.name = "save_ascii" =>
        /\ err = NoError
        /\ Zoo_load_ascii(files.gol) = [err |-> NoError, val |-> pre]

\* C19: for every grid, save_binary followed by load_binary of the same file
\* returns a grid with the same width, the same height and the same value in
\* every cell.
C19_BinaryRoundTrip ==
    op.name = "save_binary" =>
        /\ err = NoError
        /\ \A stackWidth \in StackInts(files.bgol, 1), stackHeight \in StackInts(files.bgol, 5) :
              \A r \in Zoo_load_binary(files.bgol, stackWidth, stackHeight) :
                  r = [err |-> NoError, val |-> pre]

\* ceil(n / d) for n >= 0, d > 0, and bit k of the payload of a binary file:
\* the bit k mod 8, least significant first, of the byte k div 8 after the
\* 8 header bytes.
CeilDiv(n, d) == (n + d - 1) \div d
PayloadBit(bytes, k) == (bytes[8 + (k \div 8) + 1] \div (2 ^ (k % 8))) % 2

\* C20: save_binary writes, after the 8 header bytes, exactly
\* ceil(width * height / 8) payload bytes; bit k mod 8 (least significant
\* first) of byte k div 8 is 1 iff cell (k mod width, k div width) is ALIVE,
\* for every k < width * height, and every remaining bit of the last byte is 0.
C20_BinaryPayload ==
    op.name = "save_binary" =>
        /\ Len(files.bgol.bytes) = 8 + CeilDiv(pre.width * pre.height, 8)
        /\ \A k \in 0..(8 * CeilDiv(pre.width * pre.height, 8) - 1) :
              PayloadBit(files.bgol.bytes, k) = 1
                  <=> /\ k < pre.width * pre.height
                      /\ pre.grid[k % pre.width][k \div pre.width] = ALIVE

\* C21: save_binary encodes width and height each as a 4-byte little-endian
\* integer: byte i of each header field is (value div 256^i) mod 256, for
\* every width and height >= 0, those of 256 and more included.
C21_BinaryHeader ==
    op.name = "save_binary" =>
        /\ Len(files.bgol.bytes) >= 8
        /\ \A i \in 0..3 :
              /\ files.bgol.bytes[1 + i] = (pre.width \div (256 ^ i)) % 256
              /\ files.bgol.bytes[5 + i] = (pre.height \div (256 ^ i)) % 256

\* The ascii format as the specification states it: a header of two decimal
\* numbers with a space between and a newline after, then height rows of
\* width characters '#' or ' ', each row ended by a newline.
IsDigits(s) == s # <<>> /\ \A i \in 1..Len(s) : s[i] \in 48..57

RECURSIVE DecimalValue(_)
DecimalValue(s) ==
    IF s = <<>> THEN 0
    ELSE 10 * DecimalValue(SubSeq(s, 1, Len(s) - 1)) + (s[Len(s)] - 48)

\* The headers bytes starts with (none or one): width, height and the number
\* of bytes the header takes.
ParsedHeaders(bytes) ==
    {[width  |-> DecimalValue(SubSeq(bytes, 1, p[1] - 1)),
      height |-> DecimalValue(SubSeq(bytes, p[1] + 1, p[2] - 1)),
      len    |-> p[2]] :
        p \in {q \in (1..Len(bytes)) \X (1..Len(bytes)) :
                  /\ bytes[q[1]] = 32
                  /\ bytes[q[2]] = 10
                  /\ IsDigits(SubSeq(bytes, 1, q[1] - 1))
                  /\ IsDigits(SubSeq(bytes, q[1] + 1, q[2] - 1))}}

\* The character of the body at (x, y); x = width is the end of the row y.
\* 0 stands for a character the file is too short to hold.
BodyChar(bytes, hd, x, y) ==
    IF hd.len + y * (hd.width + 1) + x + 1 <= Len(bytes)
    THEN bytes[hd.len + y * (hd.width + 1) + x + 1]
    ELSE 0

WellFormedBody(bytes, hd) ==
    \A y \in 0..(hd.height - 1) :
        /\ \A x \in 0..(hd.width - 1) : BodyChar(bytes, hd, x, y) \in {35, 32}
        /\ BodyChar(bytes, hd, hd.width, y) = 10

\* C22: load_ascii fails, and returns no grid, whenever after a valid header
\* a character within the declared width x height is not '#' or ' ', or a row
\* is shorter or longer than width characters, or a row (the last included)
\* is not ended by a newline.
C22_MalformedBodyFails ==
    op.name = "load_ascii" =>
        \A hd \in ParsedHeaders(files.gol.bytes) :
            ~WellFormedBody(files.gol.bytes, hd) => (err # NoError /\ ret = NoValue)

\* C23: load_ascii reads the header as two decimal numbers of any number of
\* digits: a well-formed file loads to a grid of the declared width and
\* height, those of 10 and more included, and a file whose width or height is
\* negative or not a number fails.
C23_DecimalHeader ==
    op.name = "load_ascii" =>
        /\ \A hd \in ParsedHeaders(files.gol.bytes) :
              WellFormedBody(files.gol.bytes, hd) =>
                  /\ err = NoError
                  /\ ret.width = hd.width
                  /\ ret.height = hd.height
        /\ ParsedHeaders(files.gol.bytes) = {} => err # NoError

\* The int the four bytes of a binary file from position at make, low byte
\* first and the top bit the sign, as the specification states the header.
LittleEndian(bytes, at) ==
    bytes[at] + 256 * bytes[at + 1] + 65536 * bytes[at + 2]
    + 16777216 * (IF bytes[at + 3] >= 128 THEN bytes[at + 3] - 256 ELSE bytes[at + 3])

\* bytes is shorter than its header says, or than a header.
Truncated(bytes) ==
    \/ Len(bytes) < 8
    \/ /\ LittleEndian(bytes, 1) >= 0
       /\ LittleEndian(bytes, 5) >= 0
       /\ Len(bytes) < 8 + CeilDiv(LittleEndian(bytes, 1) * LittleEndian(bytes, 5), 8)

\* C24: load_binary fails whenever the file holds fewer bytes than
\* 8 + ceil(width * height / 8) for the width and height in its header, a file
\* shorter than the 8 header bytes included; it never returns a grid built
\* from missing bytes.
C24_TruncatedFails ==
    (op.name = "load_binary" /\ files.bgol.exists /\ Truncated(files.bgol.bytes)) =>
        err \notin {NoError, Killed}

\* C25: the outcome of step depends only on currentState: a World whose
\* nextState has the dimensions of currentState and any contents (as left by
\* shrinking and growing again with resize) steps to the same currentState as
\* a World constructed from the same currentState, whose nextState is a copy
\* of it.
C25_StepDependsOnCurrentOnly ==
    (/\ get_width(nextState) = get_width(currentState)
     /\ get_height(nextState) = get_height(currentState)) =>
        \A toroidal \in BOOLEAN :
            World_step(World, toroidal).currentState
                = World_step(World_from(currentState), toroidal).currentState

\* The grid g with the cell (x, y) turned from ALIVE to DEAD or back.
Flipped(g, x, y) ==
    [g EXCEPT !.grid[x][y] = IF g.grid[x][y] = ALIVE THEN DEAD ELSE ALIVE]

\* C26: count_neighbours never counts the centre cell (x, y) as its own
\* neighbour, toroidal or not, on every grid of width and height >= 1, 1-wide
\* and 1-high toroidal grids included: the count a step takes for a cell is
\* the same whatever the value of that cell.
C26_CentreNeverCounted ==
    op.name = "step" =>
        \A x \in 0..(get_width(pre.currentState) - 1) :
            \A y \in 0..(get_height(pre.currentState) - 1) :
                count_neighbours(pre.currentState, x, y, op.toroidal).n
                    = count_neighbours(Flipped(pre.currentState, x, y), x, y, op.toroidal).n

\* C26, amended: count_neighbours makes no read at the offset (0, 0), and
\* the value of the cell (x, y) enters its own count exactly when the count
\* is toroidal and the grid is 1 wide or 1 high, where a wrapped neighbour
\* coordinate is (x, y) itself; in every other case the count a step takes
\* for a cell is the same whatever the value of that cell.
C26_CentreCountedOnlyByWrap ==
    op.name = "step" =>
        \A x \in 0..(get_width(pre.currentState) - 1) :
            \A y \in 0..(get_height(pre.currentState) - 1) :
                (count_neighbours(pre.currentState, x, y, op.toroidal).n
                    # count_neighbours(Flipped(pre.currentState, x, y), x, y, op.toroidal).n)
                <=> (/\ op.toroidal
                     /\ (get_width(pre.currentState) = 1 \/ get_height(pre.currentState) = 1))

\* A toroidal step of a grid 2 wide or more and 2 high or more, in which an
\* ALIVE cell has an ALIVE neighbour.
C26_Witness ==
    /\ op.name = "step"
    /\ op.toroidal
    /\ err = NoError
    /\ get_width(pre.currentState) >= 2
    /\ get_height(pre.currentState) >= 2
    /\ \E x \in 0..(get_width(pre.currentState) - 1) :
          \E y \in 0..(get_height(pre.currentState) - 1) :
              /\ pre.currentState.grid[x][y] = ALIVE
              /\ count_neighbours(pre.currentState, x, y, TRUE).n >= 1

====
